---- MODULE Spec2Model ----
(***************************************************************************)
(* State machine of the page-builder component Home                        *)
(* (src/src/app/(frontend)/page.tsx): the list of placed elements, the     *)
(* selection, the reorder drag index, the browser's drag transaction and   *)
(* the propagation of a drop event from an element slot to the canvas.     *)
(* Indices are 0-based as in the source; a sequence s holds index i at     *)
(* s[i + 1].                                                               *)
(***************************************************************************)
EXTENDS Integers, Sequences, FiniteSets, TLC

(* ------------------------------ bounds --------------------------------- *)

\* At most this many elements are ever created.
MaxElements == 3

\* At most this many content/style edits are performed.
MaxEdits == 2

\* The longest canvas a reorder is tried on.
MaxList == 4

\* The palette kinds a user drags in the model (a subset of ElementType).
DraggedKinds == {"Text", "Image"}

\* The strings typed into the content editor.
ContentInputs == {"Hello"}

\* The (name, value) pairs the style inputs deliver, one for each input of the
\* property editor, in the specification of the editor alone.
EditorStyleInputs == {<<"fontSize", "20">>, <<"padding", "20">>, <<"margin", "20">>,
                      <<"color", "#ff0000">>, <<"fontWeight", "bold">>,
                      <<"backgroundColor", "#ff0000">>}

\* The (name, value) pairs the style inputs deliver.
StyleInputs == {<<"fontSize", "24">>, <<"margin", "24">>,
                <<"color", "#ff0000">>, <<"fontWeight", "bold">>}

(* --------------------------- program constants ------------------------- *)

\* null of `number | null`
Null == -1

ElementType == {"Text", "Image", "Div", "List"}

\* dataTransfer.getData of a format that was never set
NoData == ""

DefaultStyle == [fontSize |-> "16px", color |-> "#000000", padding |-> "8px"]

PxNames == {"fontSize", "padding", "margin"}

\* No drag transaction is in progress.
NoDrag == [source |-> "none", type |-> NoData, allowed |-> FALSE]

\* What an out-of-range array read or an empty splice result yields.
Undefined == [id |-> Null, type |-> "undefined", content |-> "undefined",
              style |-> [k \in {} |-> ""]]

VARIABLES
    canvasElements,        \* useState<CanvasElement[]>
    selectedElementIndex,  \* useState<number | null>
    draggingIndex,         \* useState<number | null>
    drag,                  \* the drag transaction and its dataTransfer
    pc,                    \* "idle", or "bubble": a slot's drop is on its way to the canvas
    dropIndex,             \* the slot the drop event in flight was dispatched to
    eventStart,            \* canvasElements as rendered when the event in flight began
    uuidCount,             \* ids handed out by uuidv4 so far
    dropLog,               \* history: the payload of every handleDrop call, in order
    edits,                 \* history: number of content/style change events so far
    script                 \* history: progress along the end-to-end scenario

vars == <<canvasElements, selectedElementIndex, draggingIndex, drag, pc,
          dropIndex, eventStart, uuidCount, dropLog, edits, script>>

(* ------------------------------ helpers -------------------------------- *)

Indices(s) == 0 .. (Len(s) - 1)

At(s, i) == IF i \in Indices(s) THEN s[i + 1] ELSE Undefined

\* Mutant: the element is copied (slice) instead of removed (splice).
SpliceOutNothing(s, start) == s

\* Array.prototype.splice(start, 1): the array left after the removal.
SpliceOut(s, start) ==
    IF start \in Indices(s)
    THEN [k \in 1 .. (Len(s) - 1) |-> IF k <= start THEN s[k] ELSE s[k + 1]]
    ELSE s

\* Array.prototype.splice(start, 0, item): start is clamped to the length.
SpliceIn(s, start, item) ==
    LET at == IF start > Len(s) THEN Len(s) ELSE start
    IN  [k \in 1 .. (Len(s) + 1) |->
            IF k <= at THEN s[k] ELSE IF k = at + 1 THEN item ELSE s[k - 1]]

\* Mutant: the target index is corrected for the removal, so the element lands
\* before the element that was displayed at the target.
ReorderedBeforeTarget(s, from, to) ==
    SpliceIn(SpliceOut(s, from), IF from < to THEN to - 1 ELSE to, At(s, from))

\* The body of handleElementDrop past its guard: lines 33-35.
Reordered(s, from, to) == SpliceIn(SpliceOut(s, from), to, At(s, from))

\* uuidv4(): the n-th identifier drawn; no two draws are equal.
Uuid(n) == n

\* Mutant: the kind is hard-coded instead of read from the payload.
NewElementAlwaysText(id, type) ==
    [id |-> id, type |-> "Text", content |-> type \o " Content", style |-> DefaultStyle]

\* Mutant: the default content is the bare kind name.
NewElementBareContent(id, type) ==
    [id |-> id, type |-> type, content |-> type, style |-> DefaultStyle]

\* The object literal of handleDrop.
NewElement(id, type) ==
    [id |-> id, type |-> type, content |-> type \o " Content", style |-> DefaultStyle]

\* Mutant: only fontSize is on the list of pixel-valued names.
NewStyleValueFontOnly(name, value) == IF name = "fontSize" THEN value \o "px" ELSE value

\* `${value}px` for the pixel-valued names, the raw value otherwise.
NewStyleValue(name, value) == IF name \in PxNames THEN value \o "px" ELSE value

\* Mutant: the new entry is merged into the creation defaults, not into the
\* element's current style.
MergeStyleOverDefaults(style, name, v) ==
    [k \in (DOMAIN DefaultStyle) \cup {name} |-> IF k = name THEN v ELSE DefaultStyle[k]]

\* { ...style, [name]: v }
MergeStyle(style, name, v) ==
    [k \in (DOMAIN style) \cup {name} |-> IF k = name THEN v ELSE style[k]]

\* Mutant: the element is rebuilt with the creation defaults around the content.
WithContentFresh(s, index, value) ==
    [s EXCEPT ![index + 1] = [id |-> @.id, type |-> @.type, content |-> value,
                              style |-> DefaultStyle]]

\* updated[index] = { ...updated[index], content: value }
WithContent(s, index, value) ==
    [s EXCEPT ![index + 1] = [@ EXCEPT !.content = value]]

\* Mutant: the style is replaced by the one entry, without the spread.
WithStyleOnly(s, index, name, v) ==
    [s EXCEPT ![index + 1] = [@ EXCEPT !.style = [k \in {name} |-> v]]]

\* updated[index] = { ...updated[index], style: { ...style, [name]: v } }
WithStyle(s, index, name, v) ==
    [s EXCEPT ![index + 1] = [@ EXCEPT !.style = MergeStyle(@, name, v)]]

(* ------------------------- the end-to-end scenario --------------------- *)

E2E == << [op |-> "handleDragStart",         a |-> <<"Text">>],
          [op |-> "canvasDrop",              a |-> <<>>],
          [op |-> "handleDragStart",         a |-> <<"Image">>],
          [op |-> "canvasDrop",              a |-> <<>>],
          [op |-> "setSelectedElementIndex", a |-> <<0>>],
          [op |-> "handleContentChange",     a |-> <<"Hello">>],
          [op |-> "handleStyleChange",       a |-> <<"fontSize", "24">>],
          [op |-> "handleElementDragStart",  a |-> <<1>>],
          [op |-> "slotDrop",                a |-> <<0>>] >>

\* The scenario has been left.
Off == Len(E2E) + 1

\* The scenario advances when the event is its next one, and is left otherwise.
Advance(op, a) ==
    IF script # Off /\ script < Len(E2E) /\ E2E[script + 1].op = op /\ E2E[script + 1].a = a
    THEN script + 1
    ELSE Off

(* ------------------------------ actions -------------------------------- *)

Init ==
    /\ canvasElements = <<>>
    /\ selectedElementIndex = Null
    /\ draggingIndex = Null
    /\ drag = NoDrag
    /\ pc = "idle"
    /\ dropIndex = Null
    /\ eventStart = <<>>
    /\ uuidCount = 0
    /\ dropLog = <<>>
    /\ edits = 0
    /\ script = 0

\* A palette item's onDragStart: e.dataTransfer.setData('type', type).
HandleDragStart(type) ==
    /\ pc = "idle"
    /\ drag = NoDrag
    /\ drag' = [source |-> "palette", type |-> type, allowed |-> FALSE]
    /\ script' = Advance("handleDragStart", <<type>>)
    /\ UNCHANGED <<canvasElements, selectedElementIndex, draggingIndex, pc,
                   dropIndex, eventStart, uuidCount, dropLog, edits>>

\* Mutant: the index stored is one-based.
HandleElementDragStartOneBased(index) ==
    /\ pc = "idle"
    /\ drag = NoDrag
    /\ index \in Indices(canvasElements)
    /\ draggingIndex' = index + 1
    /\ drag' = [source |-> "element", type |-> NoData, allowed |-> FALSE]
    /\ script' = Advance("handleElementDragStart", <<index>>)
    /\ UNCHANGED <<canvasElements, selectedElementIndex, pc, dropIndex,
                   eventStart, uuidCount, dropLog, edits>>

\* A placed element's onDragStart; its transaction carries no 'type' data.
HandleElementDragStart(index) ==
    /\ pc = "idle"
    /\ drag = NoDrag
    /\ index \in Indices(canvasElements)
    /\ draggingIndex' = index
    /\ drag' = [source |-> "element", type |-> NoData, allowed |-> FALSE]
    /\ script' = Advance("handleElementDragStart", <<index>>)
    /\ UNCHANGED <<canvasElements, selectedElementIndex, pc, dropIndex,
                   eventStart, uuidCount, dropLog, edits>>

\* Drag-over on an element slot: e.preventDefault() permits a drop.
AllowDrop(index) ==
    /\ pc = "idle"
    /\ drag # NoDrag
    /\ index \in Indices(canvasElements)
    /\ drag' = [drag EXCEPT !.allowed = TRUE]
    /\ UNCHANGED <<canvasElements, selectedElementIndex, draggingIndex, pc,
                   dropIndex, eventStart, uuidCount, dropLog, edits, script>>

\* Mutant: the drag-over also forgets the element being dragged.
HandleDragOverClearing ==
    /\ pc = "idle"
    /\ drag # NoDrag
    /\ drag' = [drag EXCEPT !.allowed = TRUE]
    /\ draggingIndex' = Null
    /\ UNCHANGED <<canvasElements, selectedElementIndex, pc,
                   dropIndex, eventStart, uuidCount, dropLog, edits, script>>

\* Drag-over on the canvas surface: e.preventDefault() permits a drop.
HandleDragOver ==
    /\ pc = "idle"
    /\ drag # NoDrag
    /\ drag' = [drag EXCEPT !.allowed = TRUE]
    /\ UNCHANGED <<canvasElements, selectedElementIndex, draggingIndex, pc,
                   dropIndex, eventStart, uuidCount, dropLog, edits, script>>

\* The drag ends with no drop on the canvas; no handler is registered for it.
DragEnd ==
    /\ pc = "idle"
    /\ drag # NoDrag
    /\ drag' = NoDrag
    /\ script' = Advance("dragEnd", <<>>)
    /\ UNCHANGED <<canvasElements, selectedElementIndex, draggingIndex, pc,
                   dropIndex, eventStart, uuidCount, dropLog, edits>>

\* Mutant: the reorder also selects the slot dropped on.
HandleElementDropSelecting(j) ==
    /\ pc = "idle"
    /\ drag # NoDrag
    /\ drag.allowed
    /\ j \in Indices(canvasElements)
    /\ IF draggingIndex = Null \/ draggingIndex = j
       THEN UNCHANGED <<canvasElements, draggingIndex, selectedElementIndex>>
       ELSE /\ canvasElements' = Reordered(canvasElements, draggingIndex, j)
            /\ draggingIndex' = Null
            /\ selectedElementIndex' = j
    /\ pc' = "bubble"
    /\ dropIndex' = j
    /\ eventStart' = canvasElements
    /\ script' = Advance("slotDrop", <<j>>)
    /\ UNCHANGED <<drag, uuidCount, dropLog, edits>>

\* A drop on the slot of the element at index j: the slot's own handler.
\* The event then goes on to the canvas, which the slot is nested in.
HandleElementDrop(j) ==
    /\ pc = "idle"
    /\ drag # NoDrag
    /\ drag.allowed
    /\ j \in Indices(canvasElements)
    /\ IF draggingIndex = Null \/ draggingIndex = j
       THEN UNCHANGED <<canvasElements, draggingIndex>>
       ELSE /\ canvasElements' = Reordered(canvasElements, draggingIndex, j)
            /\ draggingIndex' = Null
    /\ pc' = "bubble"
    /\ dropIndex' = j
    /\ eventStart' = canvasElements
    /\ script' = Advance("slotDrop", <<j>>)
    /\ UNCHANGED <<selectedElementIndex, drag, uuidCount, dropLog, edits>>

\* Mutant: the drop clears the selection.
HandleDropDeselecting ==
    /\ uuidCount' = uuidCount + 1
    /\ canvasElements' = Append(canvasElements, NewElement(Uuid(uuidCount + 1), drag.type))
    /\ dropLog' = Append(dropLog, drag.type)
    /\ drag' = NoDrag
    /\ pc' = "idle"
    /\ dropIndex' = Null
    /\ eventStart' = <<>>
    /\ selectedElementIndex' = Null
    /\ UNCHANGED <<draggingIndex, edits>>

\* handleDrop: the canvas's onDrop.
HandleDrop ==
    /\ uuidCount' = uuidCount + 1
    /\ canvasElements' = Append(canvasElements, NewElement(Uuid(uuidCount + 1), drag.type))
    /\ dropLog' = Append(dropLog, drag.type)
    /\ drag' = NoDrag
    /\ pc' = "idle"
    /\ dropIndex' = Null
    /\ eventStart' = <<>>
    /\ UNCHANGED <<selectedElementIndex, draggingIndex, edits>>

\* A drop on the canvas surface, outside every element slot.
CanvasDrop ==
    /\ pc = "idle"
    /\ drag # NoDrag
    /\ drag.allowed
    /\ HandleDrop
    /\ script' = Advance("canvasDrop", <<>>)

\* The drop dispatched to a slot reaches the canvas's onDrop.
DropBubble ==
    /\ pc = "bubble"
    /\ HandleDrop
    /\ UNCHANGED script

\* Mutant: a click on the selected element deselects it.
SetSelectedElementIndexToggling(index) ==
    /\ pc = "idle"
    /\ drag = NoDrag
    /\ index \in Indices(canvasElements)
    /\ selectedElementIndex' = IF selectedElementIndex = index THEN Null ELSE index
    /\ script' = Advance("setSelectedElementIndex", <<index>>)
    /\ UNCHANGED <<canvasElements, draggingIndex, drag, pc, dropIndex,
                   eventStart, uuidCount, dropLog, edits>>

\* Mutant: the click selects the slot after the one clicked.
SetSelectedElementIndexNext(index) ==
    /\ pc = "idle"
    /\ drag = NoDrag
    /\ index \in Indices(canvasElements)
    /\ selectedElementIndex' = index + 1
    /\ script' = Advance("setSelectedElementIndex", <<index>>)
    /\ UNCHANGED <<canvasElements, draggingIndex, drag, pc, dropIndex,
                   eventStart, uuidCount, dropLog, edits>>

\* A placed element's onClick.
SetSelectedElementIndex(index) ==
    /\ pc = "idle"
    /\ drag = NoDrag
    /\ index \in Indices(canvasElements)
    /\ selectedElementIndex' = index
    /\ script' = Advance("setSelectedElementIndex", <<index>>)
    /\ UNCHANGED <<canvasElements, draggingIndex, drag, pc, dropIndex,
                   eventStart, uuidCount, dropLog, edits>>

\* Mutant: with nothing selected the edit falls back to the first element.
HandleContentChangeFirst(value) ==
    /\ pc = "idle"
    /\ drag = NoDrag
    /\ IF selectedElementIndex = Null
       THEN IF canvasElements = <<>>
            THEN UNCHANGED canvasElements
            ELSE canvasElements' = WithContent(canvasElements, 0, value)
       ELSE canvasElements' = WithContent(canvasElements, selectedElementIndex, value)
    /\ edits' = edits + 1
    /\ script' = Advance("handleContentChange", <<value>>)
    /\ UNCHANGED <<selectedElementIndex, draggingIndex, drag, pc, dropIndex,
                   eventStart, uuidCount, dropLog>>

\* The content input's onChange; `edits` counts the call.
HandleContentChange(value) ==
    /\ pc = "idle"
    /\ drag = NoDrag
    /\ IF selectedElementIndex = Null
       THEN UNCHANGED canvasElements
       ELSE canvasElements' = WithContent(canvasElements, selectedElementIndex, value)
    /\ edits' = edits + 1
    /\ script' = Advance("handleContentChange", <<value>>)
    /\ UNCHANGED <<selectedElementIndex, draggingIndex, drag, pc, dropIndex,
                   eventStart, uuidCount, dropLog>>

\* A style input's onChange; `edits` counts the call.
HandleStyleChange(name, value) ==
    /\ pc = "idle"
    /\ drag = NoDrag
    /\ IF selectedElementIndex = Null
       THEN UNCHANGED canvasElements
       ELSE canvasElements' = WithStyle(canvasElements, selectedElementIndex,
                                       name, NewStyleValue(name, value))
    /\ edits' = edits + 1
    /\ script' = Advance("handleStyleChange", <<name, value>>)
    /\ UNCHANGED <<selectedElementIndex, draggingIndex, drag, pc, dropIndex,
                   eventStart, uuidCount, dropLog>>

(* ------------------------ events and specifications ------------------- *)

PaletteDragStart == \E type \in DraggedKinds : HandleDragStart(type)

ElementDragStart == \E index \in Indices(canvasElements) : HandleElementDragStart(index)

SlotDragOver == \E index \in Indices(canvasElements) : AllowDrop(index)

SlotDrop ==
    /\ uuidCount < MaxElements
    /\ \E j \in Indices(canvasElements) : HandleElementDrop(j)

SurfaceDrop ==
    /\ uuidCount < MaxElements
    /\ CanvasDrop

Click == \E index \in Indices(canvasElements) : SetSelectedElementIndex(index)

ContentChange ==
    /\ edits < MaxEdits
    /\ \E value \in ContentInputs : HandleContentChange(value)

StyleChange ==
    /\ edits < MaxEdits
    /\ \E nv \in StyleInputs : HandleStyleChange(nv[1], nv[2])

\* Every event of the component.
Next ==
    \/ PaletteDragStart
    \/ ElementDragStart
    \/ SlotDragOver
    \/ HandleDragOver
    \/ DragEnd
    \/ SlotDrop
    \/ SurfaceDrop
    \/ DropBubble
    \/ Click
    \/ ContentChange
    \/ StyleChange

Spec == Init /\ [][Next]_vars

\* The drag, drop and click events, with the whole palette.
AnyPaletteDragStart == \E type \in ElementType : HandleDragStart(type)

NextDrag ==
    \/ AnyPaletteDragStart
    \/ ElementDragStart
    \/ SlotDragOver
    \/ HandleDragOver
    \/ DragEnd
    \/ SlotDrop
    \/ SurfaceDrop
    \/ DropBubble
    \/ Click

SpecDrag == Init /\ [][NextDrag]_vars

\* Palette gestures only: a palette drag-start, drag-overs, a drop on the canvas.
NextPalette ==
    \/ AnyPaletteDragStart
    \/ HandleDragOver
    \/ SurfaceDrop

SpecPalette == Init /\ [][NextPalette]_vars

\* Every event but a drag that ends outside the canvas.
NextDropsOnly ==
    \/ PaletteDragStart
    \/ ElementDragStart
    \/ SlotDragOver
    \/ HandleDragOver
    \/ SlotDrop
    \/ SurfaceDrop
    \/ DropBubble
    \/ Click
    \/ ContentChange
    \/ StyleChange

SpecDropsOnly == Init /\ [][NextDropsOnly]_vars

\* The property editor: palette drops, clicks and every input of the editor.
EditorStyleChange ==
    /\ edits < MaxEdits
    /\ \E nv \in EditorStyleInputs : HandleStyleChange(nv[1], nv[2])

NextEdit ==
    \/ PaletteDragStart
    \/ HandleDragOver
    \/ SurfaceDrop
    \/ Click
    \/ ContentChange
    \/ EditorStyleChange

SpecEdit == Init /\ [][NextEdit]_vars

\* Text drops, element drags that end on the surface or are cancelled, clicks and
\* edits: every event but the drop on a slot.
TextDragStart == HandleDragStart("Text")

NextGate ==
    \/ TextDragStart
    \/ ElementDragStart
    \/ HandleDragOver
    \/ DragEnd
    \/ SurfaceDrop
    \/ Click
    \/ ContentChange
    \/ StyleChange

SpecGate == Init /\ [][NextGate]_vars

\* Reordering a canvas of any length up to MaxList: the canvas holds n elements
\* dropped from the palette, and an element drag of an earlier gesture may have
\* left its index behind.
InitList ==
    /\ \E n \in 0 .. MaxList :
         /\ canvasElements = [k \in 1 .. n |-> NewElement(Uuid(k), "Text")]
         /\ dropLog = [k \in 1 .. n |-> "Text"]
         /\ uuidCount = n
         /\ draggingIndex \in {Null} \cup (0 .. (n - 1))
         /\ selectedElementIndex \in {Null} \cup (0 .. (n - 1))
    /\ drag = NoDrag
    /\ pc = "idle"
    /\ dropIndex = Null
    /\ eventStart = <<>>
    /\ edits = 0
    /\ script = Off

ListSlotDrop ==
    /\ Len(canvasElements) <= MaxList
    /\ \E j \in Indices(canvasElements) : HandleElementDrop(j)

NextList ==
    \/ PaletteDragStart
    \/ ElementDragStart
    \/ SlotDragOver
    \/ ListSlotDrop
    \/ DropBubble

SpecList == InitList /\ [][NextList]_vars

(* ------------------------------- claims -------------------------------- *)

Ids(s) == {s[k].id : k \in DOMAIN s}

\* The sequence s without its element at the 0-based index i.
Without(s, i) == SubSeq(s, 1, i) \o SubSeq(s, i + 2, Len(s))

\* The step in which a slot's own drop handler runs.
SlotDropStep == pc = "idle" /\ pc' = "bubble"

C2_ReorderNoOp ==
    [][ (SlotDropStep /\ (draggingIndex = Null \/ draggingIndex = dropIndex'))
        => (canvasElements' = canvasElements /\ draggingIndex' = Null) ]_vars

\* C3: over the whole drop event on a slot, through the canvas handler the
\* event reaches last, the number of elements and the set of ids are what they
\* were when the event began.
C3_ReorderKeepsElements ==
    [][ pc = "bubble"
        => /\ Len(canvasElements') = Len(eventStart)
           /\ Ids(canvasElements') = Ids(eventStart) ]_vars

\* C4: a drop that completes a palette gesture, on the canvas surface or on a
\* slot, never changes the order of the elements already placed: every step
\* taken while a palette drag is in progress leaves them where they were.
C4_PaletteDropKeepsOrder ==
    [][ drag.source = "palette"
        => SubSeq(canvasElements', 1, Len(canvasElements)) = canvasElements ]_vars

\* C5: after n palette drops on the empty canvas there are exactly n elements,
\* the i-th of the type of the i-th drop, and with pairwise distinct ids.
C5_AppendOnly ==
    /\ Len(canvasElements) = Len(dropLog)
    /\ \A k \in DOMAIN canvasElements : canvasElements[k].type = dropLog[k]
    /\ \A k, m \in DOMAIN canvasElements :
          canvasElements[k].id = canvasElements[m].id => k = m

\* Three palette drops of two different kinds have been made.
C5_Witness ==
    /\ Len(dropLog) = 3
    /\ dropLog[1] # dropLog[2]
    /\ Len(canvasElements) = 3

\* C6: a canvas drop that carries the palette kind k appends one element with
\* a fresh id, type k, content k followed by " Content" and the default style;
\* the elements placed before keep their values and indices, and the selection
\* is what it was.
C6_DropEffectAndFrame ==
    [][ (uuidCount' # uuidCount /\ drag.source = "palette")
        => /\ Len(canvasElements') = Len(canvasElements) + 1
           /\ SubSeq(canvasElements', 1, Len(canvasElements)) = canvasElements
           /\ LET new == canvasElements'[Len(canvasElements')]
              IN  /\ new.id \notin Ids(canvasElements)
                  /\ new.type = drag.type
                  /\ new.content = drag.type \o " Content"
                  /\ new.style = [fontSize |-> "16px", color |-> "#000000", padding |-> "8px"]
           /\ selectedElementIndex' = selectedElementIndex ]_vars

\* A palette kind has just been dropped behind two placed elements, one of
\* which is selected.
C6_Witness ==
    /\ pc = "idle"
    /\ drag = NoDrag
    /\ Len(canvasElements) = 3
    /\ canvasElements[3].id = Uuid(uuidCount)
    /\ canvasElements[3].content = "Div Content"
    /\ selectedElementIndex # Null

\* C7: the type of every element is one of Text, Image, Div, List.
C7_TypeClosed ==
    \A k \in DOMAIN canvasElements : canvasElements[k].type \in ElementType

\* C8: after the scenario (drop Text, drop Image, select 0, content "Hello",
\* fontSize "24", drag 1 onto 0) the elements are the default Image and the
\* edited Text, the selection is index 1 and draggingIndex is null.
C8_EndToEnd ==
    (script = Len(E2E) /\ pc = "idle")
    => /\ Len(canvasElements) = 2
       /\ canvasElements[1].type = "Image"
       /\ canvasElements[1].content = "Image Content"
       /\ canvasElements[1].style = [fontSize |-> "16px", color |-> "#000000", padding |-> "8px"]
       /\ canvasElements[2].type = "Text"
       /\ canvasElements[2].content = "Hello"
       /\ canvasElements[2].style = [fontSize |-> "24px", color |-> "#000000", padding |-> "8px"]
       /\ selectedElementIndex = 1
       /\ draggingIndex = Null

\* C9: a drop on a slot, whether it reorders or not, leaves the number held in
\* selectedElementIndex as it was, in the slot's handler and in the canvas
\* handler after it.
C9_ReorderKeepsSelectedIndex ==
    [][ (SlotDropStep \/ pc = "bubble")
        => selectedElementIndex' = selectedElementIndex ]_vars

\* A reorder has put an element with another id at the selected index.
C9_Witness ==
    /\ pc = "bubble"
    /\ selectedElementIndex # Null
    /\ canvasElements[selectedElementIndex + 1].id # eventStart[selectedElementIndex + 1].id

\* C10: selectedElementIndex is null or the index of an existing element.
C10_SelectionValid ==
    \/ selectedElementIndex = Null
    \/ /\ selectedElementIndex \in Indices(canvasElements)
       /\ At(canvasElements, selectedElementIndex) # Undefined

\* The last of three elements is selected.
C10_Witness ==
    /\ Len(canvasElements) = 3
    /\ selectedElementIndex = 2

\* A step that is a content-update with some string.
ContentUpdateStep == \E value \in ContentInputs : HandleContentChange(value)

\* A step that is a style-update with some name and value.
StyleUpdateStep == \E nv \in StyleInputs : HandleStyleChange(nv[1], nv[2])

\* The elements of s other than the one at the 0-based index i are those of t.
SameElsewhere(s, t, i) ==
    /\ Len(s) = Len(t)
    /\ \A k \in DOMAIN s : k # i + 1 => s[k] = t[k]

\* C11: while nothing is selected, a content-update and a style-update leave the
\* elements, the selection and draggingIndex as they were.
C11_SelectionGating ==
    [][ (selectedElementIndex = Null /\ (ContentUpdateStep \/ StyleUpdateStep))
        => UNCHANGED <<canvasElements, selectedElementIndex, draggingIndex>> ]_vars

\* An update was called on a populated canvas with nothing selected.
C11_Witness ==
    /\ edits = MaxEdits
    /\ selectedElementIndex = Null
    /\ draggingIndex # Null
    /\ Len(canvasElements) > 1

\* C12: with index s selected, a content-update with v sets the content of the
\* element at s to v, keeps its id, type and style, keeps every other element,
\* the length and order of the list, the selection and draggingIndex.
C12_ContentUpdate ==
    [][ \A value \in ContentInputs :
          (selectedElementIndex # Null /\ HandleContentChange(value))
          => LET old == canvasElements[selectedElementIndex + 1]
                 new == canvasElements'[selectedElementIndex + 1]
             IN  /\ new.content = value
                 /\ new.id = old.id
                 /\ new.type = old.type
                 /\ new.style = old.style
                 /\ SameElsewhere(canvasElements, canvasElements', selectedElementIndex)
                 /\ selectedElementIndex' = selectedElementIndex
                 /\ draggingIndex' = draggingIndex ]_vars

\* An element carries the typed content and a style edited before or after,
\* and an index left by an element drag is still set.
C12_Witness ==
    /\ draggingIndex # Null
    /\ \E k \in DOMAIN canvasElements :
          /\ canvasElements[k].content = "Hello"
          /\ canvasElements[k].style # DefaultStyle

\* C13: with an element selected, a style-update stores the value followed by
\* "px" under the name when the name is fontSize, padding or margin, and the
\* value itself under any other name: fontSize "20" is stored as "20px" and
\* color "#ff0000" as "#ff0000".
C13_PixelNormalization ==
    [][ \A nv \in EditorStyleInputs :
          (selectedElementIndex # Null /\ HandleStyleChange(nv[1], nv[2]))
          => LET stored == canvasElements'[selectedElementIndex + 1].style[nv[1]]
             IN  /\ nv[1] \in {"fontSize", "padding", "margin"} => stored = nv[2] \o "px"
                 /\ nv[1] \notin {"fontSize", "padding", "margin"} => stored = nv[2]
                 /\ nv = <<"fontSize", "20">> => stored = "20px"
                 /\ nv = <<"color", "#ff0000">> => stored = "#ff0000" ]_vars

\* One element holds a normalized fontSize and a raw color.
C13_Witness ==
    \E k \in DOMAIN canvasElements :
        /\ canvasElements[k].style.fontSize = "20px"
        /\ canvasElements[k].style.color = "#ff0000"

\* C14: with index s selected, a style-update changes only the entry of its
\* name in the style of the element at s: every other key keeps its value, no
\* key is lost, the element's id, type and content and every other element are
\* what they were.
C14_PartialStyleMerge ==
    [][ \A nv \in EditorStyleInputs :
          (selectedElementIndex # Null /\ HandleStyleChange(nv[1], nv[2]))
          => LET old == canvasElements[selectedElementIndex + 1]
                 new == canvasElements'[selectedElementIndex + 1]
             IN  /\ DOMAIN new.style = (DOMAIN old.style) \cup {nv[1]}
                 /\ \A k \in DOMAIN old.style : k # nv[1] => new.style[k] = old.style[k]
                 /\ new.id = old.id
                 /\ new.type = old.type
                 /\ new.content = old.content
                 /\ SameElsewhere(canvasElements, canvasElements', selectedElementIndex) ]_vars

\* fontWeight was set after margin, and margin and the creation defaults are kept.
C14_Witness ==
    \E k \in DOMAIN canvasElements :
        /\ DOMAIN canvasElements[k].style = {"fontSize", "color", "padding", "margin", "fontWeight"}
        /\ canvasElements[k].style.fontWeight = "bold"
        /\ canvasElements[k].style.margin = "20px"
        /\ canvasElements[k].style.fontSize = "16px"

\* C15: a drag-over, on the canvas or on a slot, leaves the elements, the
\* selection and draggingIndex as they were, and a drag-over after the first
\* changes nothing at all, so the drop that follows starts from the same state
\* however many drag-overs came before it.
C15_DragOverNoOp ==
    [][ (HandleDragOver \/ \E index \in Indices(canvasElements) : AllowDrop(index))
        => /\ UNCHANGED <<canvasElements, selectedElementIndex, draggingIndex>>
           /\ drag.allowed => UNCHANGED vars ]_vars

\* A drag-over has permitted the drop of an element drag over a populated canvas.
C15_Witness ==
    /\ drag.allowed
    /\ drag.source = "element"
    /\ draggingIndex # Null
    /\ selectedElementIndex # Null

\* C16: no two elements share an id, and an id that is in the list stays in it.
C16_Identity ==
    [][ /\ \A k, m \in DOMAIN canvasElements' :
              canvasElements'[k].id = canvasElements'[m].id => k = m
        /\ Ids(canvasElements) \subseteq Ids(canvasElements') ]_vars

\* handleElementDrop has just moved one of two elements, both ids still there.
C16_Witness ==
    /\ pc = "bubble"
    /\ Len(canvasElements) = 2
    /\ canvasElements # eventStart
    /\ Ids(canvasElements) = {Uuid(1), Uuid(2)}

\* C17: the style of every element has the keys fontSize, color and padding.
C17_DefaultStyleKeys ==
    \A k \in DOMAIN canvasElements :
        {"fontSize", "color", "padding"} \subseteq DOMAIN canvasElements[k].style

\* A style edit has added a key and another has overwritten a default.
C17_Witness ==
    \E k \in DOMAIN canvasElements :
        /\ DOMAIN canvasElements[k].style = {"fontSize", "color", "padding", "backgroundColor"}
        /\ canvasElements[k].style.padding = "20px"

\* C18: a click on the element at index i sets selectedElementIndex to i,
\* whatever it was, and leaves the elements and draggingIndex as they were.
C18_ClickSelects ==
    [][ \A i \in Indices(canvasElements) :
          SetSelectedElementIndex(i)
          => /\ selectedElementIndex' = i
             /\ canvasElements' = canvasElements
             /\ draggingIndex' = draggingIndex ]_vars

\* The second element is selected while an earlier drag index is still set.
C18_Witness ==
    /\ selectedElementIndex = 1
    /\ draggingIndex = 0
    /\ drag = NoDrag

\* C19: once set, selectedElementIndex is never null again, and it changes
\* only by a click, to the index clicked.
C19_SelectionNeverCleared ==
    [][ selectedElementIndex' # selectedElementIndex
        => /\ selectedElementIndex' # Null
           /\ \E i \in Indices(canvasElements) : SetSelectedElementIndex(i) ]_vars

\* The selection has outlived a reorder: a slot drop has moved the elements
\* and the event has reached the canvas.
C19_Witness ==
    /\ selectedElementIndex # Null
    /\ pc = "idle"
    /\ Len(canvasElements) = 3
    /\ canvasElements[1].id = Uuid(2)
    /\ canvasElements[2].id = Uuid(1)

\* C20: draggingIndex is null or the index of an existing element, also when
\* it is left from an earlier gesture; when handleElementDrop moves an element,
\* the source and the drop index are indices of the list and the value put
\* back is one of its elements.
C20_DragIndexValid ==
    [][ /\ draggingIndex' = Null \/ draggingIndex' \in Indices(canvasElements')
        /\ (SlotDropStep /\ draggingIndex # Null /\ draggingIndex # dropIndex')
             => /\ draggingIndex \in Indices(canvasElements)
                /\ dropIndex' \in Indices(canvasElements)
                /\ canvasElements'[dropIndex' + 1] # Undefined
                /\ \E k \in DOMAIN canvasElements :
                      canvasElements'[dropIndex' + 1] = canvasElements[k] ]_vars

\* An index left by an earlier element drag is about to be used by the drop of
\* a palette drag.
C20_Witness ==
    /\ draggingIndex # Null
    /\ drag.source = "palette"
    /\ drag.allowed
    /\ Len(canvasElements) = 2

====
